---- MODULE Spec2Model ----
(***************************************************************************)
(* merge_lora of scripts/lora_part_merge.py as a state machine.            *)
(*                                                                         *)
(* One run of merge_lora is one behaviour: pc walks through the calls of   *)
(* the function body in program order.  Every library call either returns  *)
(* or raises; which of the two happens is chosen by the environment.  The  *)
(* file system is a function from paths to directory entries, so that the  *)
(* effects of save_pretrained and shutil.copy can be observed.             *)
(***************************************************************************)
EXTENDS Integers, Sequences, FiniteSets, TLC

\* Number of distinct contents a file that exists before the run may hold.
MaxContent == 2
\* Number of LoRA checkpoints lora_checkpoint_path may name.
MaxAdapter == 1

VARIABLES
    base_model_path,       \* parameter: a directory path
    lora_checkpoint_path,  \* parameter: a checkpoint, 1..MaxAdapter
    extra_file,            \* parameter: a path, joined to both directories
    submodule_name,        \* parameter: an attribute name
    save_path,             \* parameter: a directory path
    model,                 \* local: None or the loaded model
    tokenizer,             \* local: None or the loaded tokenizer
    processor,             \* local: None or the loaded processor
    base_submodule,        \* local: None or getattr(model, submodule_name)
    lora_model,            \* local: None or the PeftModel wrapper
    merged_submodule,      \* local: None or the result of merge_and_unload
    fs,                    \* the file system: path -> entry
    pc,                    \* the statement the run is at
    err,                   \* the exception the run ended with, or None
    trace,                 \* history: the calls made so far, with what each raised
    initial_fs,            \* history: fs when the run started
    loaded_model           \* history: the model as from_pretrained returned it

params == <<base_model_path, lora_checkpoint_path, extra_file, submodule_name, save_path>>
locals == <<model, tokenizer, processor, base_submodule, lora_model, merged_submodule>>
vars == <<params, locals, fs, pc, err, trace, initial_fs, loaded_model>>

----------------------------------------------------------------------------
(* Values *)

None == [kind |-> "None"]

\* A submodule's weights: those of attribute `name`, with adapter `adapter`
\* merged in (0: the weights as loaded).
Submodule(name) == [name |-> name, adapter |-> 0]

\* The attribute sets a loaded model may have.
ModelShapes == {{"thinker", "talker"}, {"talker"}}
SubmoduleNames == {"thinker", "talker"}

LoadedModel(shape) == [kind |-> "model", attrs |-> [n \in shape |-> Submodule(n)]]
LoadedTokenizer == [kind |-> "tokenizer"]
LoadedProcessor == [kind |-> "processor"]

\* The exception classes a failing library call raises; all derive from Exception.
ErrorTypes == {"OSError", "ValueError"}
LibraryError(type, at) == [type |-> type, at |-> at, msg |-> ""]

----------------------------------------------------------------------------
(* Paths and the file system *)

BaseDir == <<"base">>
OutDir == <<"out">>
Dirs == {BaseDir, OutDir}

ModelFile == "model.safetensors"
TokenizerFile == "tokenizer.json"
ProcessorFile == "preprocessor_config.json"
SpkFile == "spk_dict.pt"
LibraryFiles == {ModelFile, TokenizerFile, ProcessorFile}

\* extra_file: the default name, or an absolute path to a file of that name.
ExtraFiles == {<<SpkFile>>, <<"/", SpkFile>>}

IsAbs(p) == p # <<>> /\ p[1] = "/"

OsPathJoin(a, b) == IF IsAbs(b) THEN b ELSE a \o b

AllPaths ==
    Dirs \cup {d \o <<n>> : d \in Dirs, n \in LibraryFiles \cup {SpkFile}}
         \cup {<<"/", SpkFile>>}

Absent == [kind |-> "absent"]
Dir == [kind |-> "dir"]
File(data) == [kind |-> "file", data |-> data]
Old(i) == [orig |-> i]
Partial == [partial |-> TRUE]

\* Mutation: the existence check is missing.
ExistsAlways(f, p) == TRUE

Exists(f, p) == f[p] # Absent

MakeDirs(f, d) == [f EXCEPT ![d] = Dir]

WriteFile(f, p, data) == [f EXCEPT ![p] = File(data)]

\* What a directory may look like before the run.
DirStates == {"none", "empty", "full", "noproc"}

LibraryEntry(state, n) ==
    CASE state = "full" -> File(Old(1))
      [] state = "noproc" -> IF n = ProcessorFile THEN Absent ELSE File(Old(1))
      [] OTHER -> Absent

SpkChoices(state) ==
    IF state = "none" THEN {Absent} ELSE {Absent} \cup {File(Old(i)) : i \in 1..MaxContent}

InitialFs(bs, os, bspk, ospk, aspk) ==
    [p \in AllPaths |->
        LET st == IF p[1] = "base" THEN bs ELSE os
            spk == IF p[1] = "base" THEN bspk ELSE ospk
        IN  IF p = <<"/", SpkFile>> THEN aspk
            ELSE IF Len(p) = 1 THEN (IF st = "none" THEN Absent ELSE Dir)
            ELSE IF p[2] = SpkFile THEN spk
            ELSE LibraryEntry(st, p[2])]

----------------------------------------------------------------------------
Init ==
    /\ base_model_path = BaseDir
    /\ lora_checkpoint_path \in 1..MaxAdapter
    /\ extra_file \in ExtraFiles
    /\ submodule_name \in SubmoduleNames
    /\ save_path \in Dirs
    /\ model = None
    /\ tokenizer = None
    /\ processor = None
    /\ base_submodule = None
    /\ lora_model = None
    /\ merged_submodule = None
    /\ \E bs \in DirStates \ {"empty"}, os \in DirStates \ {"noproc"} :
         \E bspk \in SpkChoices(bs), ospk \in SpkChoices(os),
            aspk \in {Absent, File(Old(1))} :
            fs = InitialFs(bs, os, bspk, ospk, aspk)
    /\ pc = "load_model"
    /\ err = None
    /\ trace = <<>>
    /\ initial_fs = fs
    /\ loaded_model = None

----------------------------------------------------------------------------
(* Control flow *)

\* The statements of merge_lora in program order.
Order ==
    << "load_model", "load_tokenizer", "load_processor", "check_submodule",
       "load_adapter", "merge", "substitute", "save_model", "save_tokenizer",
       "save_processor", "copy_extra" >>

IndexOf(step) == CHOOSE i \in 1..Len(Order) : Order[i] = step

\* Mutation: the model is saved before the substitution.
AfterSaveFirst(step) ==
    CASE step = "merge" -> "save_model"
      [] step = "save_model" -> "substitute"
      [] step = "substitute" -> "save_tokenizer"
      [] OTHER -> IF IndexOf(step) = Len(Order) THEN "done" ELSE Order[IndexOf(step) + 1]

\* Mutation: the model is saved before the adapter is loaded.
AfterEarlySave(step) ==
    CASE step = "check_submodule" -> "save_model"
      [] step = "save_model" -> "load_adapter"
      [] step = "substitute" -> "save_tokenizer"
      [] OTHER -> IF IndexOf(step) = Len(Order) THEN "done" ELSE Order[IndexOf(step) + 1]

\* The statement control falls through to after `step`.
After(step) ==
    IF IndexOf(step) = Len(Order) THEN "done" ELSE Order[IndexOf(step) + 1]

Call(step, raised) == [step |-> step, raised |-> raised]

\* The call of `step` returned.
Returned(step) ==
    /\ pc' = After(step)
    /\ err' = err
    /\ trace' = Append(trace, Call(step, None))

\* Mutation: the exception is wrapped before it leaves the function.
RaisedWrapped(step, e) ==
    /\ pc' = "failed"
    /\ err' = [e EXCEPT !.type = "RuntimeError"]
    /\ trace' = Append(trace, Call(step, e))

\* The call of `step` raised e and nothing caught it: the run ends with e.
Raised(step, e) ==
    /\ pc' = "failed"
    /\ err' = e
    /\ trace' = Append(trace, Call(step, e))

\* A statement that calls nothing is passed.
Passed(step) ==
    /\ pc' = After(step)
    /\ err' = err
    /\ trace' = trace

\* except Exception: the classes the handler of the processor load catches.
ExceptionClasses ==
    {"OSError", "ValueError", "AttributeError", "SameFileError"}

\* Mutation: except OSError instead of except Exception.
CaughtOSErrorOnly(type) == type = "OSError"

Caught(type) == type \in ExceptionClasses

----------------------------------------------------------------------------
(* Attribute access and the adapter *)

HasAttr(m, name) == name \in DOMAIN m.attrs

GetAttr(m, name) == m.attrs[name]

\* Mutation: the substitution overwrites every attribute.
SetAttrAll(m, name, value) == [m EXCEPT !.attrs = [n \in DOMAIN @ |-> value]]

SetAttr(m, name, value) == [m EXCEPT !.attrs = [@ EXCEPT ![name] = value]]

PeftModel(submodule, checkpoint) ==
    [kind |-> "peft", base |-> submodule, lora |-> checkpoint]

MergeAndUnload(lm) == [lm.base EXCEPT !.adapter = lm.lora]

\* Mutation: the error does not name the submodule.
AttributeErrorUnnamed(name) ==
    [type |-> "AttributeError", at |-> "check_submodule", msg |-> ""]

AttributeError(name) == [type |-> "AttributeError", at |-> "check_submodule", msg |-> name]

----------------------------------------------------------------------------
(* Steps 1-5: loads, submodule lookup, merge, substitution *)

\* model = AutoModel.from_pretrained(base_model_path)
LoadModel ==
    /\ pc = "load_model"
    /\ \/ \E shape \in ModelShapes :
            /\ model' = LoadedModel(shape)
            /\ loaded_model' = LoadedModel(shape)
            /\ Returned("load_model")
       \/ \E t \in ErrorTypes :
            /\ Raised("load_model", LibraryError(t, "load_model"))
            /\ UNCHANGED <<model, loaded_model>>
    /\ UNCHANGED <<params, tokenizer, processor, base_submodule, lora_model,
                   merged_submodule, fs, initial_fs>>

\* tokenizer = AutoTokenizer.from_pretrained(base_model_path)
LoadTokenizer ==
    /\ pc = "load_tokenizer"
    /\ \/ /\ tokenizer' = LoadedTokenizer
          /\ Returned("load_tokenizer")
       \/ \E t \in ErrorTypes :
            /\ Raised("load_tokenizer", LibraryError(t, "load_tokenizer"))
            /\ UNCHANGED tokenizer
    /\ UNCHANGED <<params, model, processor, base_submodule, lora_model,
                   merged_submodule, fs, initial_fs, loaded_model>>

\* try: processor = AutoProcessor.from_pretrained(...) except Exception: processor = None
LoadProcessor ==
    /\ pc = "load_processor"
    /\ \/ /\ processor' = LoadedProcessor
          /\ Returned("load_processor")
       \/ \E t \in ErrorTypes :
            LET e == LibraryError(t, "load_processor")
            IN  IF Caught(t)
                THEN /\ processor' = None
                     /\ pc' = After("load_processor")
                     /\ err' = err
                     /\ trace' = Append(trace, Call("load_processor", e))
                ELSE /\ Raised("load_processor", e)
                     /\ UNCHANGED processor
    /\ UNCHANGED <<params, model, tokenizer, base_submodule, lora_model,
                   merged_submodule, fs, initial_fs, loaded_model>>

\* if not hasattr(model, submodule_name): raise AttributeError(...)
\* base_submodule = getattr(model, submodule_name)
CheckSubmodule ==
    /\ pc = "check_submodule"
    /\ IF HasAttr(model, submodule_name)
       THEN /\ base_submodule' = GetAttr(model, submodule_name)
            /\ Returned("check_submodule")
       ELSE /\ Raised("check_submodule", AttributeError(submodule_name))
            /\ UNCHANGED base_submodule
    /\ UNCHANGED <<params, model, tokenizer, processor, lora_model,
                   merged_submodule, fs, initial_fs, loaded_model>>

\* lora_model = PeftModel.from_pretrained(base_submodule, lora_checkpoint_path)
LoadAdapter ==
    /\ pc = "load_adapter"
    /\ \/ /\ lora_model' = PeftModel(base_submodule, lora_checkpoint_path)
          /\ Returned("load_adapter")
       \/ \E t \in ErrorTypes :
            /\ Raised("load_adapter", LibraryError(t, "load_adapter"))
            /\ UNCHANGED lora_model
    /\ UNCHANGED <<params, model, tokenizer, processor, base_submodule,
                   merged_submodule, fs, initial_fs, loaded_model>>

\* merged_submodule = lora_model.merge_and_unload()
Merge ==
    /\ pc = "merge"
    /\ \/ /\ merged_submodule' = MergeAndUnload(lora_model)
          /\ Returned("merge")
       \/ \E t \in ErrorTypes :
            /\ Raised("merge", LibraryError(t, "merge"))
            /\ UNCHANGED merged_submodule
    /\ UNCHANGED <<params, model, tokenizer, processor, base_submodule,
                   lora_model, fs, initial_fs, loaded_model>>

\* setattr(model, submodule_name, merged_submodule)
Substitute ==
    /\ pc = "substitute"
    /\ model' = SetAttr(model, submodule_name, merged_submodule)
    /\ Returned("substitute")
    /\ UNCHANGED <<params, tokenizer, processor, base_submodule, lora_model,
                   merged_submodule, fs, initial_fs, loaded_model>>

----------------------------------------------------------------------------
(* Step 6: save_pretrained *)

ModelData(m) == [model |-> m.attrs]
TokenizerData == [tokenizer |-> TRUE]
ProcessorData == [processor |-> TRUE]

\* Mutation: the object is saved under base_model_path.
SavePretrainedToBase(f, d, name, data) ==
    WriteFile(MakeDirs(f, base_model_path), base_model_path \o <<name>>, data)

\* save_pretrained(d) returned: d exists and holds the object's file.
SavePretrained(f, d, name, data) == WriteFile(MakeDirs(f, d), d \o <<name>>, data)

\* Mutation: a failed save removes what is under the directory.
FailedSaveRollback(f, d, name) ==
    {[p \in AllPaths |-> IF Len(p) = 2 /\ p[1] = d[1] THEN Absent ELSE f[p]]}

\* save_pretrained(d) raised: nothing, the directory, or a truncated file was written.
FailedSave(f, d, name) ==
    {f, MakeDirs(f, d), WriteFile(MakeDirs(f, d), d \o <<name>>, Partial)}

\* model.save_pretrained(save_path)
SaveModel ==
    /\ pc = "save_model"
    /\ \/ /\ fs' = SavePretrained(fs, save_path, ModelFile, ModelData(model))
          /\ Returned("save_model")
       \/ \E t \in ErrorTypes, w \in FailedSave(fs, save_path, ModelFile) :
            /\ fs' = w
            /\ Raised("save_model", LibraryError(t, "save_model"))
    /\ UNCHANGED <<params, locals, initial_fs, loaded_model>>

\* tokenizer.save_pretrained(save_path)
SaveTokenizer ==
    /\ pc = "save_tokenizer"
    /\ \/ /\ fs' = SavePretrained(fs, save_path, TokenizerFile, TokenizerData)
          /\ Returned("save_tokenizer")
       \/ \E t \in ErrorTypes, w \in FailedSave(fs, save_path, TokenizerFile) :
            /\ fs' = w
            /\ Raised("save_tokenizer", LibraryError(t, "save_tokenizer"))
    /\ UNCHANGED <<params, locals, initial_fs, loaded_model>>

\* if processor is not None: processor.save_pretrained(save_path)
SaveProcessor ==
    /\ pc = "save_processor"
    /\ IF processor # None
       THEN \/ /\ fs' = SavePretrained(fs, save_path, ProcessorFile, ProcessorData)
               /\ Returned("save_processor")
            \/ \E t \in ErrorTypes, w \in FailedSave(fs, save_path, ProcessorFile) :
                 /\ fs' = w
                 /\ Raised("save_processor", LibraryError(t, "save_processor"))
       ELSE /\ Passed("save_processor")
            /\ UNCHANGED fs
    /\ UNCHANGED <<params, locals, initial_fs, loaded_model>>

----------------------------------------------------------------------------
(* The auxiliary file *)

source_file == OsPathJoin(base_model_path, extra_file)
target_file == OsPathJoin(save_path, extra_file)

\* shutil._samefile: the two paths name one file.
SameFile(src, dst) == src = dst

\* shutil.copy(src, dst) for an existing file src: the outcomes, each the exception
\* raised (None when the copy returned) and the file system left behind.
ShutilCopy(f, src, dst) ==
    IF SameFile(src, dst)
    THEN {[raised |-> [type |-> "SameFileError", at |-> "copy_extra", msg |-> ""],
           fs |-> f]}
    ELSE {[raised |-> None, fs |-> [f EXCEPT ![dst] = f[src]]]}
         \cup {[raised |-> LibraryError(t, "copy_extra"), fs |-> w] :
                 t \in ErrorTypes, w \in {f, WriteFile(f, dst, Partial)}}

\* if os.path.exists(source_file): shutil.copy(source_file, target_file)
\* else: skip
CopyExtra ==
    /\ pc = "copy_extra"
    /\ IF Exists(fs, source_file)
       THEN \E o \in ShutilCopy(fs, source_file, target_file) :
              /\ fs' = o.fs
              /\ IF o.raised = None
                 THEN Returned("copy_extra")
                 ELSE Raised("copy_extra", o.raised)
       ELSE /\ Passed("copy_extra")
            /\ UNCHANGED fs
    /\ UNCHANGED <<params, locals, initial_fs, loaded_model>>

----------------------------------------------------------------------------
Next ==
    \/ LoadModel
    \/ LoadTokenizer
    \/ LoadProcessor
    \/ CheckSubmodule
    \/ LoadAdapter
    \/ Merge
    \/ Substitute
    \/ SaveModel
    \/ SaveTokenizer
    \/ SaveProcessor
    \/ CopyExtra

Spec == Init /\ [][Next]_vars

----------------------------------------------------------------------------
(* Vocabulary of the properties *)

Terminated == pc \in {"done", "failed"}

\* `step` was called / was called and returned / was called and raised.
Called(step) == \E i \in 1..Len(trace) : trace[i].step = step
CalledOk(step) == \E i \in 1..Len(trace) : trace[i] = Call(step, None)
CallFailed(step) ==
    \E i \in 1..Len(trace) : trace[i].step = step /\ trace[i].raised # None

StepsOf(tr) == [i \in 1..Len(tr) |-> tr[i].step]

IsPrefix(a, b) == Len(a) <= Len(b) /\ \A i \in 1..Len(a) : a[i] = b[i]

SavePathFiles == {save_path \o <<n>> : n \in LibraryFiles \cup {SpkFile}}

\* Nothing at or under save_path differs from what the run found.
SavePathUntouched ==
    \A p \in {save_path} \cup SavePathFiles : fs[p] = initial_fs[p]

\* The three saves are behind the run: each one called has returned.
SavesSucceeded ==
    /\ CalledOk("save_model")
    /\ CalledOk("save_tokenizer")
    /\ processor # None => CalledOk("save_processor")
    /\ pc \in {"copy_extra", "done", "failed"}
    /\ ~CallFailed("save_processor")

\* The copy was not broken by the environment (disk full, permissions).
NoCopyIOError ==
    \A i \in 1..Len(trace) :
        trace[i].step = "copy_extra" /\ trace[i].raised # None
            => trace[i].raised.type \notin ErrorTypes

----------------------------------------------------------------------------
(* C2 *)

\* C2: once the model and the tokenizer are loaded and submodule_name is not
\* an attribute of the loaded model, the run can only go through the
\* processor load (whatever its outcome) to the attribute check and end there
\* with AttributeError naming submodule_name; the adapter load, the merge,
\* the substitution, the saves and the copy are never called.
C2_MissingSubmoduleRaises ==
    ( /\ CalledOk("load_model")
      /\ CalledOk("load_tokenizer")
      /\ submodule_name \notin DOMAIN loaded_model.attrs )
    =>
    /\ \A s \in {"load_adapter", "merge", "substitute", "save_model",
                 "save_tokenizer", "save_processor", "copy_extra"} : ~Called(s)
    /\ pc \in {"load_processor", "check_submodule", "failed"}
    /\ pc # "failed" => ENABLED Next
    /\ pc = "failed" =>
         /\ trace[Len(trace)].step = "check_submodule"
         /\ err.type = "AttributeError"
         /\ err.msg = submodule_name
    /\ Called("check_submodule") => pc = "failed"

C2_Witness ==
    /\ pc = "failed"
    /\ Called("check_submodule")
    /\ submodule_name \notin DOMAIN loaded_model.attrs
    /\ CallFailed("load_processor")

----------------------------------------------------------------------------
(* C3 *)

\* C3: when the processor load raised, processor is None, the run goes on
\* with the attribute check, processor.save_pretrained is never called and
\* the processor file under save_path stays what it was before the run; the
\* run fails only if a later call raises, and with every other call
\* returning it ends in "done".
C3_ProcessorAbsenceNotFatal ==
    CallFailed("load_processor") =>
        /\ processor = None
        /\ ~Called("save_processor")
        /\ fs[save_path \o <<ProcessorFile>>] = initial_fs[save_path \o <<ProcessorFile>>]
        /\ pc = "failed" =>
             /\ trace[Len(trace)].step # "load_processor"
             /\ trace[Len(trace)].raised = err
             /\ err # None
        /\ ( \A i \in 1..Len(trace) :
                trace[i].raised # None => trace[i].step = "load_processor" )
             => pc # "failed" /\ (pc = "done" \/ ENABLED Next)

C3_Witness ==
    /\ pc = "done"
    /\ CallFailed("load_processor")
    /\ CalledOk("save_tokenizer")
    /\ initial_fs[save_path] = Absent

----------------------------------------------------------------------------
(* C4 *)

\* C4: when the run is at the existence check and nothing exists at
\* base_model_path/extra_file, the step ends the run in "done" with no
\* error, calls no copy and leaves the whole file system, the path
\* save_path/extra_file included, as it is.
C4_AbsentExtraFileSkipped ==
    [][ ( pc = "copy_extra"
          /\ fs[OsPathJoin(base_model_path, extra_file)] = Absent )
        => ( /\ pc' = "done"
             /\ err' = None
             /\ trace' = trace
             /\ fs' = fs ) ]_vars

C4_Witness ==
    /\ pc = "done"
    /\ ~Called("copy_extra")
    /\ fs[OsPathJoin(base_model_path, extra_file)] = Absent
    /\ fs[OsPathJoin(save_path, extra_file)] = Absent

----------------------------------------------------------------------------
(* C6 *)

\* C6: a call other than the processor load that raised is the last call of
\* the run, which ends "failed" with err the very exception raised; a
\* processor load that raised, whatever the exception, is followed by the
\* attribute check with no error recorded, and never ends the run.
C6_OnlyProcessorLoadRecovered ==
    /\ \A i \in 1..Len(trace) :
         (trace[i].raised # None /\ trace[i].step # "load_processor")
            => /\ i = Len(trace)
               /\ pc = "failed"
               /\ err = trace[i].raised
    /\ \A i \in 1..Len(trace) :
         (trace[i].raised # None /\ trace[i].step = "load_processor")
            => /\ processor = None
               /\ i = Len(trace) => (pc = "check_submodule" /\ err = None)
    /\ pc = "failed" =>
         /\ trace # <<>>
         /\ trace[Len(trace)].raised # None
    /\ pc # "failed" => err = None

C6_Witness ==
    /\ pc = "failed"
    /\ CallFailed("load_processor")
    /\ CallFailed("save_processor") \/ CallFailed("copy_extra")

----------------------------------------------------------------------------
(* C7 *)

\* C7: no step is called twice; a failed run makes no further step, and
\* every file a returned save wrote under save_path is still there, with
\* what that save wrote, when a later step has failed.
C7_NoRetryNoRollback ==
    /\ \A i, j \in 1..Len(trace) : trace[i].step = trace[j].step => i = j
    /\ pc = "failed" =>
         /\ ~ENABLED Next
         /\ CalledOk("save_model") =>
              /\ fs[save_path] = Dir
              /\ fs[save_path \o <<ModelFile>>] = File([model |-> model.attrs])
         /\ CalledOk("save_tokenizer") =>
              fs[save_path \o <<TokenizerFile>>] = File([tokenizer |-> TRUE])
         /\ CalledOk("save_processor") =>
              fs[save_path \o <<ProcessorFile>>] = File([processor |-> TRUE])

C7_Witness ==
    /\ pc = "failed"
    /\ CalledOk("save_model")
    /\ CallFailed("save_tokenizer")
    /\ initial_fs[save_path \o <<ModelFile>>] = Absent

----------------------------------------------------------------------------
(* C8 *)

\* The calls in the fixed order; processor.save_pretrained only with a processor.
CallOrder(withProcessor) ==
    IF withProcessor THEN Order
    ELSE SelectSeq(Order, LAMBDA s : s # "save_processor")

\* C8: the calls made so far are a prefix of load model, load tokenizer, load
\* processor, check submodule, load adapter, merge, substitute, save model,
\* save tokenizer, save processor (present only if the processor loaded),
\* copy; the model is saved only after the substitution and the copy is
\* called only after every save returned.
C8_FixedOrder ==
    /\ IsPrefix(StepsOf(trace), CallOrder(CalledOk("load_processor")))
    /\ Called("save_model") => CalledOk("substitute")
    /\ Called("copy_extra") => SavesSucceeded

C8_Witness ==
    /\ pc = "done"
    /\ Called("copy_extra")
    /\ ~Called("save_processor")

----------------------------------------------------------------------------
(* C9 *)

\* C9: when the model is saved, its attribute submodule_name is the loaded
\* submodule with the adapter of lora_checkpoint_path merged in, every other
\* attribute is the one loaded from base_model_path, and a save that
\* returned wrote exactly that model.
C9_OnlySubmoduleReplaced ==
    (pc = "save_model" \/ Called("save_model")) =>
        /\ DOMAIN model.attrs = DOMAIN loaded_model.attrs
        /\ model.attrs[submodule_name] =
              [name |-> submodule_name, adapter |-> lora_checkpoint_path]
        /\ loaded_model.attrs[submodule_name] =
              [name |-> submodule_name, adapter |-> 0]
        /\ \A n \in DOMAIN model.attrs \ {submodule_name} :
              model.attrs[n] = loaded_model.attrs[n]
        /\ CalledOk("save_model") =>
              fs[save_path \o <<ModelFile>>] = File([model |-> model.attrs])

C9_Witness ==
    /\ CalledOk("save_model")
    /\ Cardinality(DOMAIN model.attrs) = 2
    /\ submodule_name = "thinker"

----------------------------------------------------------------------------
(* C10 *)

\* C10: a run that failed in the model load, the tokenizer load, the
\* attribute check, the adapter load or the merge has changed nothing at or
\* under save_path.
C10_EarlyFailureLeavesSavePath ==
    ( pc = "failed"
      /\ err.at \in {"load_model", "load_tokenizer", "check_submodule",
                     "load_adapter", "merge"} )
    => SavePathUntouched

C10_Witness ==
    /\ pc = "failed"
    /\ err.at = "merge"
    /\ initial_fs[save_path] = Absent

----------------------------------------------------------------------------
(* C1, C5 *)

\* C1: every finished run in which the model load, the tokenizer load, the
\* adapter load, the merge and all saves returned, with submodule_name an
\* attribute of the model, ended without error, and save_path holds the
\* model file and the tokenizer file, and holds a processor file exactly if
\* the processor load returned.
C1_SuccessfulRunWritesOutput ==
    ( /\ Terminated
      /\ SavesSucceeded
      /\ NoCopyIOError )
    =>
    /\ pc = "done"
    /\ err = None
    /\ fs[save_path \o <<ModelFile>>].kind = "file"
    /\ fs[save_path \o <<TokenizerFile>>].kind = "file"
    /\ fs[save_path \o <<ProcessorFile>>].kind = "file" <=> CalledOk("load_processor")

\* C1 as amended: once the model load, the tokenizer load, the adapter load,
\* the merge and all saves have returned, with submodule_name an attribute
\* of the model, save_path holds the model file and the tokenizer file the
\* run wrote; it holds the processor file the run wrote if the processor
\* load returned, and otherwise what it held under that name before the run;
\* the run then ends without error, or with the exception the copy of the
\* auxiliary file raised.
C1_SavesWriteOutput ==
    SavesSucceeded =>
        /\ fs[save_path] = Dir
        /\ fs[save_path \o <<ModelFile>>] = File([model |-> model.attrs])
        /\ fs[save_path \o <<TokenizerFile>>] = File([tokenizer |-> TRUE])
        /\ CalledOk("load_processor") =>
              fs[save_path \o <<ProcessorFile>>] = File([processor |-> TRUE])
        /\ ~CalledOk("load_processor") =>
              fs[save_path \o <<ProcessorFile>>] =
                  initial_fs[save_path \o <<ProcessorFile>>]
        /\ pc = "failed" =>
              /\ trace[Len(trace)].step = "copy_extra"
              /\ err = trace[Len(trace)].raised
        /\ pc # "failed" => err = None /\ (pc = "done" \/ ENABLED Next)

C1_Witness ==
    /\ pc = "done"
    /\ SavesSucceeded
    /\ CalledOk("save_processor")
    /\ initial_fs[save_path] = Absent

\* C5: every finished run that found a file at base_model_path/extra_file
\* after all loads, the merge and the saves returned, whatever
\* base_model_path, save_path and extra_file are, ended without error with
\* save_path/extra_file holding the content of the source file, and the
\* source file as it was.
C5_ExtraFileCopied ==
    ( /\ Terminated
      /\ Called("copy_extra")
      /\ NoCopyIOError
      /\ initial_fs[source_file].kind = "file" )
    =>
    /\ pc = "done"
    /\ err = None
    /\ fs[target_file] = initial_fs[source_file]
    /\ fs[source_file] = initial_fs[source_file]

====
